---- MODULE Spec2Model ----
(***************************************************************************)
(* Flower image classification server (server_fastapi_image_model.py).     *)
(*                                                                         *)
(* Process start-up loads the model once; POST /predict reads an upload,   *)
(* decodes it, and runs predict_image: preprocess_image, the model call,   *)
(* output selection, softmax and the zip with FLOWER_CLASSES.              *)
(*                                                                         *)
(* Representation choices:                                                 *)
(*  - an image is its mode, its size (width, height) and a short sequence  *)
(*    of sample pixels, each pixel a tuple of band values;                 *)
(*  - a float32 tensor element is the rational num/den;                    *)
(*  - softmax runs in fixed point: exponentials in units of 1/ExpOne,      *)
(*    probabilities in units of 1/ProbOne; a float32 overflow is Inf and   *)
(*    Inf/Inf is NaN;                                                      *)
(*  - a message is a sequence of text fragments, so that formatting        *)
(*    (f-strings, str()) is concatenation; the source's Korean messages    *)
(*    are written in English.                                              *)
(***************************************************************************)
EXTENDS Integers, Sequences, FiniteSets, TLC

\* ---------------------------------------------------------------- bounds
NumRequests == 2
MaxSamples == 4
MaxDim == 2
MaxScore == 100

\* ------------------------------------------------------ program constants
IMAGE_SIZE == <<224, 224>>
NORMALIZATION_FACTOR == 255
FLOWER_CLASSES == <<"dandelion", "daisy", "tulips", "sunflowers", "roses">>

Requests == 1..NumRequests

Min(a, b) == IF a < b THEN a ELSE b
Max(a, b) == IF a < b THEN b ELSE a

RECURSIVE SumSeq(_)
SumSeq(s) == IF s = <<>> THEN 0 ELSE Head(s) + SumSeq(Tail(s))

RECURSIVE Flatten(_)
Flatten(ss) == IF ss = <<>> THEN <<>> ELSE Head(ss) \o Flatten(Tail(ss))

\* ------------------------------------------------------------- exceptions
\* An exception is its type and its message (HTTPException: its detail).
NoExc == [type |-> "none", detail |-> <<>>]
Raise(t, d) == [type |-> t, detail |-> d]

\* str(e).  For an HTTPException the result depends on the installed
\* Starlette: releases with HTTPException.__str__ give "<status>: <detail>",
\* earlier ones give the empty string (the exception has no positional
\* args).  Every other exception gives its message.
StrExc(e, hasStr) ==
    IF e.type = "HTTPException"
    THEN IF hasStr THEN <<"500: ">> \o e.detail ELSE <<>>
    ELSE e.detail

\* ------------------------------------------------------------------ images
Modes == {"RGB", "L", "RGBA", "I", "I;16"}

Bands(mode) ==
    CASE mode = "RGB" -> 3
      [] mode = "RGBA" -> 4
      [] OTHER -> 1

Clip8(v) == IF v < 0 THEN 0 ELSE IF v > 255 THEN 255 ELSE v

\* Image.convert("RGB") on one pixel.
ConvertPixel(mode, p) ==
    CASE mode = "RGB" -> p
      [] mode = "RGBA" -> <<p[1], p[2], p[3]>>
      [] mode = "L" -> <<p[1], p[1], p[1]>>
      [] OTHER -> <<Clip8(p[1]), Clip8(p[1]), Clip8(p[1])>>

\* Image.convert("RGB"): ok with the converted image, or the raised error.
ConvertRGB(img) ==
    IF img.mode = "I;16"
    THEN [ok |-> FALSE, img |-> img,
          err |-> Raise("ValueError", <<"conversion not supported">>)]
    ELSE [ok |-> TRUE,
          img |-> [mode |-> "RGB", size |-> img.size,
                   px |-> [i \in 1..Len(img.px) |->
                              ConvertPixel(img.mode, img.px[i])]],
          err |-> NoExc]

\* Bicubic without the final saturation to uint8.
BicubicUnclipped(px, i, b) ==
    LET n == Len(px)
        at(j) == px[Max(1, Min(n, j))][b]
    IN  (9 * (at(i) + at(i + 1)) - (at(i - 1) + at(i + 2))) \div 16

\* One output sample of the bicubic filter halfway between samples i and
\* i+1 (weights -1/16, 9/16, 9/16, -1/16, edges clamped), stored as uint8.
Bicubic(px, i, b) ==
    LET n == Len(px)
        at(j) == px[Max(1, Min(n, j))][b]
    IN  Clip8((9 * (at(i) + at(i + 1)) - (at(i - 1) + at(i + 2))) \div 16)

\* Image.resize(target_size)
Resize(img, target) ==
    [mode |-> img.mode, size |-> target,
     px |-> [i \in 1..Len(img.px) |->
                [b \in 1..Bands(img.mode) |-> Bicubic(img.px, i, b)]]]

\* np.array(image, dtype=float32) / NORMALIZATION_FACTOR : shape is
\* (height, width, bands), (height, width) for a single band.
ToArray(img) ==
    [shape |-> IF Bands(img.mode) = 1
               THEN <<img.size[2], img.size[1]>>
               ELSE <<img.size[2], img.size[1], Bands(img.mode)>>,
     vals |-> [i \in 1..Len(Flatten(img.px)) |->
                  [num |-> Flatten(img.px)[i], den |-> NORMALIZATION_FACTOR]]]

\* np.expand_dims(img_array, axis=0)
ExpandDims(arr) == [shape |-> <<1>> \o arr.shape, vals |-> arr.vals]

NoTensor == [shape |-> <<>>, vals |-> <<>>]

\* preprocess_image(image, target_size): fault is an allocation failure
\* (MemoryError) while the array is built.  The except clause raises
\* ValueError(f"preprocess failed: {e}"); e is never an HTTPException here.
preprocess_image(image, target, fault) ==
    LET c == ConvertRGB(image)
    IN  IF ~c.ok
        THEN [ok |-> FALSE, tensor |-> NoTensor,
              err |-> Raise("ValueError",
                            <<"preprocess failed: ">> \o StrExc(c.err, TRUE))]
        ELSE IF fault
        THEN [ok |-> FALSE, tensor |-> NoTensor,
              err |-> Raise("ValueError",
                            <<"preprocess failed: ", "MemoryError">>)]
        ELSE [ok |-> TRUE,
              tensor |-> ExpandDims(ToArray(Resize(c.img, target))),
              err |-> NoExc]

\* ----------------------------------------------------------------- softmax
\* Fixed point: exponentials in units of 1/ExpOne, probabilities in units
\* of 1/ProbOne (ProbDigits decimal digits).
ExpOne == 16777216
ProbDigits == 7
ExpOverflow == 89
NaN == -1

RECURSIVE Pow10(_)
Pow10(d) == IF d = 0 THEN 1 ELSE 10 * Pow10(d - 1)

ProbOne == Pow10(ProbDigits)

\* round(ExpOne * e^(-d)) for d = 0, 1, 2, ...; 0 beyond the table.
ExpTable ==
    <<16777216, 6171993, 2270549, 835288, 307285, 113044, 41587, 15299,
      5628, 2070, 762, 280, 103, 38, 14, 5, 2, 1>>

\* exp(x) for x <= 0
Exp32(x) == IF 1 - x <= Len(ExpTable) THEN ExpTable[1 - x] ELSE 0

RECURSIVE MaxSeq(_)
MaxSeq(s) == IF Len(s) = 1 THEN Head(s) ELSE Max(Head(s), MaxSeq(Tail(s)))

\* Digits of r/s after the point, r < s: quotient and last remainder.
RECURSIVE LongDiv(_, _, _)
LongDiv(r, s, digits) ==
    IF digits = 0 THEN [q |-> 0, r |-> r]
    ELSE LET d == (r * 10) \div s
             rest == LongDiv((r * 10) % s, s, digits - 1)
         IN  [q |-> d * Pow10(digits - 1) + rest.q, r |-> rest.r]

\* a / s rounded to the nearest multiple of 1/ProbOne, 0 <= a <= s, s > 0.
Div32(a, s) ==
    IF a = s THEN ProbOne
    ELSE LET f == LongDiv(a, s, ProbDigits)
         IN  IF 2 * f.r >= s THEN f.q + 1 ELSE f.q

\* exp(s_i - shift) / sum_j exp(s_j - shift), every s_i <= shift
ExpNormalize(scores, shift) ==
    LET e == [i \in 1..Len(scores) |-> Exp32(scores[i] - shift)]
        total == SumSeq(e)
    IN  [i \in 1..Len(scores) |-> Div32(e[i], total)]

\* The variant without the shift by the maximum: the exponential of a score
\* of ExpOverflow or more is Inf, Inf/Inf is NaN and x/Inf is 0.
SoftmaxNaive(scores) ==
    IF \E i \in 1..Len(scores) : scores[i] >= ExpOverflow
    THEN [i \in 1..Len(scores) |->
             IF scores[i] >= ExpOverflow THEN NaN ELSE 0]
    ELSE IF scores = <<>> THEN <<>>
    ELSE ExpNormalize(scores, MaxSeq(scores))

\* tf.nn.softmax(scores), the stable form: the maximum is subtracted first.
Softmax(scores) ==
    IF scores = <<>> THEN <<>>
    ELSE ExpNormalize(scores, MaxSeq(scores))

\* ------------------------------------------------------------------- model
\* What ./base_model.keras can be: absent, unloadable, or a model of one of
\* these kinds.
ModelKinds == {"good", "twohead", "short", "long", "bare", "intout", "badshape"}
Artifacts == {"missing", "corrupt"} \cup ModelKinds
NoModel == "None"

\* load_model that swallows its failure and returns no model.
load_modelLenient(artifact) ==
    [ok |-> TRUE,
     model |-> IF artifact \in {"missing", "corrupt"} THEN NoModel ELSE artifact,
     err |-> NoExc]

\* load_model(): the loaded model, or the raised error.
load_model(artifact) ==
    IF artifact = "missing"
    THEN [ok |-> FALSE, model |-> NoModel,
          err |-> Raise("FileNotFoundError", <<"Model file not found">>)]
    ELSE IF artifact = "corrupt"
    THEN [ok |-> FALSE, model |-> NoModel,
          err |-> Raise("ValueError", <<"not a keras file">>)]
    ELSE [ok |-> TRUE, model |-> artifact, err |-> NoExc]

\* The scores the model computes for a tensor: a fixed function of the
\* tensor (training=False), here of the sum of its numerators.
Logits(t, n) ==
    LET feature == SumSeq([i \in 1..Len(t.vals) |-> t.vals[i].num]) % 5
    IN  [k \in 1..n |-> (((feature + 1) * k) % 5) - 2]

OutputLen(m) ==
    CASE m = "short" -> Len(FLOWER_CLASSES) - 2
      [] m = "long" -> Len(FLOWER_CLASSES) + 1
      [] OTHER -> Len(FLOWER_CLASSES)

NoOutputs == [dtype |-> "none", rows |-> <<>>]

\* model(preprocessed_img, training=False), predictions.keys(), the first
\* key and predictions[output_key]: the selected outputs, or the failure.
InvokeModel(m, t) ==
    IF m = "badshape" \/ t.shape # <<1, IMAGE_SIZE[2], IMAGE_SIZE[1], 3>>
    THEN [ok |-> FALSE, outputs |-> NoOutputs,
          err |-> Raise("ValueError", <<"incompatible input shape">>)]
    ELSE IF m = "bare"
    THEN [ok |-> FALSE, outputs |-> NoOutputs,
          err |-> Raise("AttributeError", <<"no attribute keys">>)]
    ELSE LET first == [dtype |-> IF m = "intout" THEN "int32" ELSE "float32",
                       rows |-> <<Logits(t, OutputLen(m))>>]
             second == [dtype |-> "float32", rows |-> <<Logits(t, 2)>>]
             predictions == IF m = "twohead" THEN <<first, second>>
                            ELSE <<first>>
         IN  [ok |-> TRUE, outputs |-> predictions[1], err |-> NoExc]

\* tf.nn.softmax(outputs[0]).numpy(): the probabilities, or the failure.
SoftmaxOutputs(outputs) ==
    IF outputs.dtype # "float32"
    THEN [ok |-> FALSE, probs |-> <<>>,
          err |-> Raise("TypeError", <<"softmax needs a float dtype">>)]
    ELSE [ok |-> TRUE, probs |-> Softmax(outputs.rows[1]), err |-> NoExc]

\* A zip that gives every class a value, 0 where the scores run out.
ZipClassesPadded(probs) ==
    [c \in {FLOWER_CLASSES[i] : i \in 1..Len(FLOWER_CLASSES)} |->
        LET i == CHOOSE j \in 1..Len(FLOWER_CLASSES) : FLOWER_CLASSES[j] = c
        IN  IF i <= Len(probs) THEN probs[i] ELSE 0]

\* dict(zip(FLOWER_CLASSES, probabilities.tolist()))
ZipClasses(probs) ==
    [c \in {FLOWER_CLASSES[i] : i \in 1..Min(Len(FLOWER_CLASSES), Len(probs))}
        |-> probs[CHOOSE i \in 1..Len(FLOWER_CLASSES) : FLOWER_CLASSES[i] = c]]

\* ----------------------------------------------------------------- uploads
NoImage == [mode |-> "RGB", size |-> <<0, 0>>, px |-> <<>>]
ImgA == [mode |-> "RGB", size |-> <<2, 1>>,
         px |-> <<<<255, 0, 128>>, <<0, 0, 0>>>>]
ImgB == [mode |-> "L", size |-> <<1, 2>>,
         px |-> <<<<255>>, <<0>>, <<0>>, <<255>>>>]
ImgC == [mode |-> "I;16", size |-> <<1, 1>>, px |-> <<<<70000>>>>]

\* What a client can post: a body whose read fails, bytes that are no
\* image, an image file cut short, and images; fault marks a request whose
\* preprocessing runs out of memory.
Uploads ==
    {[kind |-> k, img |-> NoImage, fault |-> FALSE] :
        k \in {"unreadable", "notimage", "truncated"}}
    \cup {[kind |-> "image", img |-> i, fault |-> FALSE] : i \in {ImgA, ImgB, ImgC}}
    \cup {[kind |-> "image", img |-> ImgA, fault |-> TRUE]}

NoUpload == [kind |-> "none", img |-> NoImage, fault |-> FALSE]

\* ---------------------------------------------------------------- handlers
\* predict_image, inner except: the caught error is logged and dropped.
InnerExcept(e) == Raise("HTTPException", <<"model prediction failed">>)

\* predict_image, outer except: detail = f"prediction failed: {str(e)}"
OuterExcept(e, hasStr) ==
    Raise("HTTPException", <<"prediction failed: ">> \o StrExc(e, hasStr))

NoMapping == [c \in {} |-> 0]
NoResponse == [status |-> 0, kind |-> "none", detail |-> <<>>,
               predictions |-> NoMapping]

\* An except clause that answers with an empty mapping instead of raising.
FlowerExceptPartial(e, hasStr) ==
    [status |-> 200, kind |-> "predictions", detail |-> StrExc(e, hasStr),
     predictions |-> NoMapping]

\* predict_flower, except: HTTPException(status_code=500, detail=str(e))
FlowerExcept(e, hasStr) ==
    [status |-> 500, kind |-> "detail", detail |-> StrExc(e, hasStr),
     predictions |-> NoMapping]

\* predict_flower, return {"predictions": result}
FlowerReturn(result) ==
    [status |-> 200, kind |-> "predictions", detail |-> <<>>,
     predictions |-> result]

\* ------------------------------------------------------------------- state
VARIABLES
    artifact,      \* what is at ./base_model.keras
    hasStr,        \* the installed HTTPException defines __str__
    server,        \* "init", "serving" or "aborted"
    model,         \* the module-level model
    loads,         \* calls of load_model so far
    cur,           \* the request running on the event loop, 0 when none
    pc,            \* where each request's handler is
    upload,        \* the body each client posts
    image,         \* predict_flower's image
    tensor,        \* predict_image's preprocessed_img
    outputs,       \* predict_image's outputs
    probs,         \* predict_image's probabilities
    result,        \* predict_image's return value
    exc,           \* the exception in flight
    response,      \* what the client receives
    stages,        \* the stages of predict_image each request has run
    failedAt,      \* the stage where each request failed, "none" if none
    accepted,      \* the requests in the order their handlers were entered
    answered,      \* the requests in the order they were answered
    preIn,         \* preprocess_image called on its own: the image,
    preFault,      \*   whether the allocation fails,
    preOut,        \*   and what the call gave
    smIn,          \* softmax called on its own: the scores
    smOut          \*   and what the call gave

vars == <<artifact, hasStr, server, model, loads, cur, pc, upload, image,
          tensor, outputs, probs, result, exc, response, stages, failedAt,
          accepted, answered, preIn, preFault, preOut, smIn, smOut>>

env == <<artifact, hasStr, preIn, preFault, preOut, smIn, smOut>>

locals == <<image, tensor, outputs, probs, result>>

NotRun == [done |-> FALSE, ok |-> FALSE, tensor |-> NoTensor, err |-> NoExc]
NoProbs == [done |-> FALSE, probs |-> <<>>]

\* The process before start-up, no request posted.
Idle ==
    /\ server = "init"
    /\ model = NoModel
    /\ loads = 0
    /\ cur = 0
    /\ pc = [r \in Requests |-> "idle"]
    /\ upload = [r \in Requests |-> NoUpload]
    /\ image = [r \in Requests |-> NoImage]
    /\ tensor = [r \in Requests |-> NoTensor]
    /\ outputs = [r \in Requests |-> NoOutputs]
    /\ probs = [r \in Requests |-> <<>>]
    /\ result = [r \in Requests |-> NoMapping]
    /\ exc = [r \in Requests |-> NoExc]
    /\ response = [r \in Requests |-> NoResponse]
    /\ stages = [r \in Requests |-> <<>>]
    /\ failedAt = [r \in Requests |-> "none"]
    /\ accepted = <<>>
    /\ answered = <<>>

Init ==
    /\ artifact \in Artifacts
    /\ hasStr \in BOOLEAN
    /\ Idle
    /\ preIn = NoImage
    /\ preFault = FALSE
    /\ preOut = NotRun
    /\ smIn = <<>>
    /\ smOut = NoProbs

\* model = load_model(), at import: a raised error ends the import.
LoadModel ==
    /\ server = "init"
    /\ LET l == load_model(artifact)
       IN  /\ model' = l.model
           /\ server' = IF l.ok THEN "serving" ELSE "aborted"
    /\ loads' = loads + 1
    /\ UNCHANGED <<env, cur, pc, upload, locals, exc, response,
                   stages, failedAt, accepted, answered>>

\* predict_flower is entered and waits in `await file.read()`.
Accept(r, u) ==
    /\ server = "serving"
    /\ cur = 0
    /\ pc[r] = "idle"
    /\ pc' = [pc EXCEPT ![r] = "reading"]
    /\ upload' = [upload EXCEPT ![r] = u]
    /\ accepted' = Append(accepted, r)
    /\ UNCHANGED <<env, server, model, loads, cur, locals, exc,
                   response, stages, failedAt, answered>>

\* contents = await file.read()
ReadBody(u) ==
    IF u.kind = "unreadable"
    THEN [ok |-> FALSE, err |-> Raise("OSError", <<"read failed">>)]
    ELSE [ok |-> TRUE, err |-> NoExc]

\* `await file.read()` completes; the handler runs on the event loop until
\* it answers.
ReadUpload(r) ==
    /\ cur = 0
    /\ pc[r] = "reading"
    /\ cur' = r
    /\ IF ~ReadBody(upload[r]).ok
       THEN /\ exc' = [exc EXCEPT ![r] = ReadBody(upload[r]).err]
            /\ failedAt' = [failedAt EXCEPT ![r] = "read"]
            /\ pc' = [pc EXCEPT ![r] = "return"]
       ELSE /\ pc' = [pc EXCEPT ![r] = "decode"]
            /\ UNCHANGED <<exc, failedAt>>
    /\ UNCHANGED <<env, server, model, loads, upload, locals,
                   response, stages,
                   accepted, answered>>

\* Image.open(io.BytesIO(contents)).convert("RGB")
DecodeUpload(u) ==
    IF u.kind = "notimage"
    THEN [ok |-> FALSE, img |-> NoImage,
          err |-> Raise("UnidentifiedImageError", <<"cannot identify image file">>)]
    ELSE IF u.kind = "truncated"
    THEN [ok |-> FALSE, img |-> NoImage,
          err |-> Raise("OSError", <<"image file is truncated">>)]
    ELSE ConvertRGB(u.img)

\* Decode reading the upload from a variable every handler overwrites on
\* entry: the upload of the request accepted last.
DecodeShared(r) ==
    /\ cur = r
    /\ pc[r] = "decode"
    /\ LET d == DecodeUpload(upload[accepted[Len(accepted)]])
       IN  IF d.ok
           THEN /\ image' = [image EXCEPT ![r] = d.img]
                /\ pc' = [pc EXCEPT ![r] = "preprocess"]
                /\ UNCHANGED <<exc, failedAt>>
           ELSE /\ exc' = [exc EXCEPT ![r] = d.err]
                /\ failedAt' = [failedAt EXCEPT ![r] = "decode"]
                /\ pc' = [pc EXCEPT ![r] = "return"]
                /\ UNCHANGED image
    /\ UNCHANGED <<env, server, model, loads, cur, upload, tensor,
                   outputs, probs, result, response, stages,
                   accepted, answered>>

Decode(r) ==
    /\ cur = r
    /\ pc[r] = "decode"
    /\ LET d == DecodeUpload(upload[r])
       IN  IF d.ok
           THEN /\ image' = [image EXCEPT ![r] = d.img]
                /\ pc' = [pc EXCEPT ![r] = "preprocess"]
                /\ UNCHANGED <<exc, failedAt>>
           ELSE /\ exc' = [exc EXCEPT ![r] = d.err]
                /\ failedAt' = [failedAt EXCEPT ![r] = "decode"]
                /\ pc' = [pc EXCEPT ![r] = "return"]
                /\ UNCHANGED image
    /\ UNCHANGED <<env, server, model, loads, cur, upload, tensor,
                   outputs, probs, result, response, stages,
                   accepted, answered>>

\* predict_image: preprocessed_img = preprocess_image(image)
Preprocess(r) ==
    /\ cur = r
    /\ pc[r] = "preprocess"
    /\ stages' = [stages EXCEPT ![r] = Append(@, "preprocess")]
    /\ LET p == preprocess_image(image[r], IMAGE_SIZE, upload[r].fault)
       IN  IF p.ok
           THEN /\ tensor' = [tensor EXCEPT ![r] = p.tensor]
                /\ pc' = [pc EXCEPT ![r] = "invoke"]
                /\ UNCHANGED <<exc, failedAt>>
           ELSE /\ exc' = [exc EXCEPT ![r] = OuterExcept(p.err, hasStr)]
                /\ failedAt' = [failedAt EXCEPT ![r] = "preprocess"]
                /\ pc' = [pc EXCEPT ![r] = "return"]
                /\ UNCHANGED tensor
    /\ UNCHANGED <<env, server, model, loads, cur, upload, image,
                   outputs, probs, result, response,
                   accepted, answered>>

\* Invoke that calls the model a second time after a failed call.
InvokeRetry(r) ==
    /\ cur = r
    /\ pc[r] = "invoke"
    /\ stages' = [stages EXCEPT ![r] = Append(@, "invoke")]
    /\ LET i == InvokeModel(model, tensor[r])
       IN  IF i.ok
           THEN /\ outputs' = [outputs EXCEPT ![r] = i.outputs]
                /\ pc' = [pc EXCEPT ![r] = "softmax"]
                /\ UNCHANGED <<exc, failedAt>>
           ELSE IF Len(stages[r]) < 2
           THEN UNCHANGED <<pc, exc, failedAt, outputs>>
           ELSE /\ exc' = [exc EXCEPT ![r] =
                              OuterExcept(InnerExcept(i.err), hasStr)]
                /\ failedAt' = [failedAt EXCEPT ![r] = "inference"]
                /\ pc' = [pc EXCEPT ![r] = "return"]
                /\ UNCHANGED outputs
    /\ UNCHANGED <<env, server, model, loads, cur, upload, image,
                   tensor, probs, result, response,
                   accepted, answered>>

\* predict_image: the model call and the selection of its first output
Invoke(r) ==
    /\ cur = r
    /\ pc[r] = "invoke"
    /\ stages' = [stages EXCEPT ![r] = Append(@, "invoke")]
    /\ LET i == InvokeModel(model, tensor[r])
       IN  IF i.ok
           THEN /\ outputs' = [outputs EXCEPT ![r] = i.outputs]
                /\ pc' = [pc EXCEPT ![r] = "softmax"]
                /\ UNCHANGED <<exc, failedAt>>
           ELSE /\ exc' = [exc EXCEPT ![r] =
                              OuterExcept(InnerExcept(i.err), hasStr)]
                /\ failedAt' = [failedAt EXCEPT ![r] = "inference"]
                /\ pc' = [pc EXCEPT ![r] = "return"]
                /\ UNCHANGED outputs
    /\ UNCHANGED <<env, server, model, loads, cur, upload, image,
                   tensor, probs, result, response,
                   accepted, answered>>

\* predict_image: probabilities = tf.nn.softmax(outputs[0]).numpy()
SoftmaxStep(r) ==
    /\ cur = r
    /\ pc[r] = "softmax"
    /\ stages' = [stages EXCEPT ![r] = Append(@, "softmax")]
    /\ LET s == SoftmaxOutputs(outputs[r])
       IN  IF s.ok
           THEN /\ probs' = [probs EXCEPT ![r] = s.probs]
                /\ pc' = [pc EXCEPT ![r] = "zip"]
                /\ UNCHANGED <<exc, failedAt>>
           ELSE /\ exc' = [exc EXCEPT ![r] =
                              OuterExcept(InnerExcept(s.err), hasStr)]
                /\ failedAt' = [failedAt EXCEPT ![r] = "inference"]
                /\ pc' = [pc EXCEPT ![r] = "return"]
                /\ UNCHANGED probs
    /\ UNCHANGED <<env, server, model, loads, cur, upload, image,
                   tensor, outputs, result, response,
                   accepted, answered>>

\* predict_image: class_probabilities = dict(zip(...)); return
ZipStep(r) ==
    /\ cur = r
    /\ pc[r] = "zip"
    /\ stages' = [stages EXCEPT ![r] = Append(@, "zip")]
    /\ result' = [result EXCEPT ![r] = ZipClasses(probs[r])]
    /\ pc' = [pc EXCEPT ![r] = "return"]
    /\ UNCHANGED <<env, server, model, loads, cur, upload, image,
                   tensor, outputs, probs, exc, response, failedAt,
                   accepted, answered>>

\* Respond where an exception reaching the handler ends the process.
RespondCrash(r) ==
    /\ cur = r
    /\ pc[r] = "return"
    /\ response' = [response EXCEPT ![r] =
                       IF exc[r] = NoExc THEN FlowerReturn(result[r])
                       ELSE FlowerExcept(exc[r], hasStr)]
    /\ server' = IF exc[r] = NoExc THEN server ELSE "aborted"
    /\ pc' = [pc EXCEPT ![r] = "done"]
    /\ cur' = 0
    /\ answered' = Append(answered, r)
    /\ UNCHANGED <<env, model, loads, upload, locals,
                   exc, stages, failedAt, accepted>>

\* predict_flower answers: the mapping, or the except clause's 500.
Respond(r) ==
    /\ cur = r
    /\ pc[r] = "return"
    /\ response' = [response EXCEPT ![r] =
                       IF exc[r] = NoExc THEN FlowerReturn(result[r])
                       ELSE FlowerExcept(exc[r], hasStr)]
    /\ pc' = [pc EXCEPT ![r] = "done"]
    /\ cur' = 0
    /\ answered' = Append(answered, r)
    /\ UNCHANGED <<env, server, model, loads, upload, locals,
                   exc, stages, failedAt, accepted>>

Next ==
    \/ LoadModel
    \/ \E r \in Requests, u \in Uploads : Accept(r, u)
    \/ \E r \in Requests : ReadUpload(r)
    \/ \E r \in Requests : Decode(r)
    \/ \E r \in Requests : Preprocess(r)
    \/ \E r \in Requests : Invoke(r)
    \/ \E r \in Requests : SoftmaxStep(r)
    \/ \E r \in Requests : ZipStep(r)
    \/ \E r \in Requests : Respond(r)

Spec == Init /\ [][Next]_vars

\* ------------------------------------------- preprocess_image on its own
PixelsOf(mode) ==
    CASE mode = "RGB" -> {<<0, 0, 0>>, <<255, 255, 255>>, <<255, 0, 128>>}
      [] mode = "RGBA" -> {<<0, 0, 0, 0>>, <<255, 255, 255, 255>>, <<255, 0, 128, 7>>}
      [] mode = "L" -> {<<0>>, <<255>>}
      [] mode = "I" -> {<<-1>>, <<0>>, <<255>>, <<256>>}
      [] OTHER -> {<<70000>>}

Dims == (1..MaxDim) \cup {IMAGE_SIZE[1]}

Images ==
    UNION {{[mode |-> m, size |-> <<w, h>>, px |-> p] :
               w \in Dims, h \in Dims,
               p \in UNION {[1..n -> PixelsOf(m)] : n \in 1..MaxSamples}} :
           m \in Modes}

InitPre ==
    /\ artifact = "good"
    /\ hasStr = TRUE
    /\ Idle
    /\ preIn \in Images
    /\ preFault \in BOOLEAN
    /\ preOut = NotRun
    /\ smIn = <<>>
    /\ smOut = NoProbs

ApplyPreprocess ==
    /\ ~preOut.done
    /\ LET p == preprocess_image(preIn, IMAGE_SIZE, preFault)
       IN  preOut' = [done |-> TRUE, ok |-> p.ok, tensor |-> p.tensor,
                      err |-> p.err]
    /\ UNCHANGED <<artifact, hasStr, server, model, loads, cur, pc, upload,
                   locals, exc, response, stages, failedAt, accepted,
                   answered, preIn, preFault, smIn, smOut>>

NextPre == ApplyPreprocess

SpecPre == InitPre /\ [][NextPre]_vars

\* ------------------------------------------------------ softmax on its own
ScoreVals == {-MaxScore, -1, 0, 1, ExpOverflow, MaxScore - 1, MaxScore}

InitSoftmax ==
    /\ artifact = "good"
    /\ hasStr = TRUE
    /\ Idle
    /\ preIn = NoImage
    /\ preFault = FALSE
    /\ preOut = NotRun
    /\ smIn \in [1..Len(FLOWER_CLASSES) -> ScoreVals]
    /\ smOut = NoProbs

ApplySoftmax ==
    /\ ~smOut.done
    /\ smOut' = [done |-> TRUE, probs |-> Softmax(smIn)]
    /\ UNCHANGED <<artifact, hasStr, server, model, loads, cur, pc, upload,
                   locals, exc, response, stages, failedAt, accepted,
                   answered, preIn, preFault, preOut, smIn>>

NextSoftmax == ApplySoftmax

SpecSoftmax == InitSoftmax /\ [][NextSoftmax]_vars

\* ------------------------------------------------------------- properties
Range(f) == {f[x] : x \in DOMAIN f}

ClassSet == {FLOWER_CLASSES[i] : i \in 1..Len(FLOWER_CLASSES)}

StageOrder == <<"preprocess", "invoke", "softmax", "zip">>

IsPrefix(a, b) == Len(a) <= Len(b) /\ \A i \in 1..Len(a) : a[i] = b[i]

\* The response predict_flower gives a request handled with no other
\* request in the process.
HandleAlone(m, u, hs) ==
    IF ~ReadBody(u).ok THEN FlowerExcept(ReadBody(u).err, hs)
    ELSE LET d == DecodeUpload(u)
         IN  IF ~d.ok THEN FlowerExcept(d.err, hs)
             ELSE LET p == preprocess_image(d.img, IMAGE_SIZE, u.fault)
                  IN  IF ~p.ok THEN FlowerExcept(OuterExcept(p.err, hs), hs)
                      ELSE LET i == InvokeModel(m, p.tensor)
                               f == FlowerExcept(
                                      OuterExcept(InnerExcept(NoExc), hs), hs)
                           IN  IF ~i.ok THEN f
                               ELSE LET x == SoftmaxOutputs(i.outputs)
                                    IN  IF ~x.ok THEN f
                                        ELSE FlowerReturn(ZipClasses(x.probs))

ValidImage(u) == u.kind = "image" /\ ConvertRGB(u.img).ok /\ ~u.fault

C2_ExactlyFiveKeys ==
    \A r \in Requests :
        (pc[r] \in {"return", "done"} /\ failedAt[r] = "none") =>
            DOMAIN result[r] = ClassSet

\* C3: load_model runs once, before any request is handled; when it fails
\* the process is aborted and no request is accepted or answered.
C3_LoadOnceBeforeServing ==
    /\ loads <= 1
    /\ (\E r \in Requests : pc[r] # "idle") =>
          (loads = 1 /\ server = "serving" /\ model \in ModelKinds)
    /\ server = "serving" => (loads = 1 /\ model = artifact /\ model \in ModelKinds)
    /\ (loads = 1 /\ artifact \in {"missing", "corrupt"}) =>
          /\ server = "aborted"
          /\ accepted = <<>>
          /\ \A r \in Requests : pc[r] = "idle" /\ response[r] = NoResponse

C3_Witness == server = "aborted" /\ loads = 1 /\ artifact = "missing"

\* C4: preprocess_image with the default target size, on an image of any
\* size and of a mode convertible to RGB, returns a tensor of shape
\* (1, 224, 224, 3) whose elements are v/255 with v in 0..255.
C4_ShapeAndRange ==
    preOut.done =>
        /\ (ConvertRGB(preIn).ok /\ ~preFault) => preOut.ok
        /\ preOut.ok =>
              /\ preOut.tensor.shape = <<1, 224, 224, 3>>
              /\ Len(preOut.tensor.vals) > 0
              /\ \A i \in 1..Len(preOut.tensor.vals) :
                    /\ preOut.tensor.vals[i].den = 255
                    /\ preOut.tensor.vals[i].num \in 0..255

C4_Witness ==
    /\ preOut.done /\ preOut.ok
    /\ preIn.mode = "RGBA"
    /\ preIn.size = <<1, 2>>
    /\ Len(preIn.px) = MaxSamples
    /\ \E i \in 1..Len(preIn.px) : \E b \in 1..3 :
          BicubicUnclipped(ConvertRGB(preIn).img.px, i, b) > 255

\* C5: for a score vector of length 5 the softmax probabilities are each in
\* [0, 1] and sum to 1 within 1e-6, also when a score is so large that its
\* exponential overflows.
Tolerance == ProbOne \div 1000000

C5_SoftmaxIsDistribution ==
    smOut.done =>
        /\ Len(smOut.probs) = Len(FLOWER_CLASSES)
        /\ \A i \in 1..Len(smOut.probs) :
              smOut.probs[i] >= 0 /\ smOut.probs[i] <= ProbOne
        /\ SumSeq(smOut.probs) - ProbOne <= Tolerance
        /\ ProbOne - SumSeq(smOut.probs) <= Tolerance

C5_Witness ==
    /\ smOut.done
    /\ \E i, j \in 1..Len(smIn) : smIn[i] >= ExpOverflow /\ smIn[j] = smIn[i] - 1
    /\ \E i \in 1..Len(smIn) : smIn[i] < 0
    /\ \E i \in 1..Len(smOut.probs) : smOut.probs[i] \notin {0, ProbOne}

\* C6: whatever the interleaving, each answered request has the response
\* it gets when handled alone.
C6_ResponseAsAlone ==
    \A r \in Requests :
        pc[r] = "done" => response[r] = HandleAlone(model, upload[r], hasStr)

C6_Witness ==
    \E r, q \in Requests :
        /\ Len(answered) >= 2
        /\ accepted[1] = r /\ accepted[2] = q
        /\ answered[1] = q /\ answered[2] = r
        /\ ValidImage(upload[r]) /\ ValidImage(upload[q])
        /\ upload[r].img # upload[q].img
        /\ response[r].status = 200 /\ response[q].status = 200
        /\ response[r] # response[q]

\* C7: a failed request leaves the process serving and the model as it
\* was, and a request answered after failed ones gets the response it gets
\* when handled alone.
C7_Step ==
    server = "serving" =>
        /\ server' = "serving"
        /\ model' = model
        /\ \A r \in Requests :
              (/\ pc[r] = "return" /\ pc'[r] = "done"
               /\ \E q \in Requests : pc[q] = "done" /\ response[q].status = 500)
              => response'[r] = HandleAlone(model, upload[r], hasStr)

C7_FailuresLeaveServerIntact == [][C7_Step]_vars

C7_Witness ==
    \E r, q \in Requests :
        /\ Len(answered) >= 2
        /\ answered[1] = q /\ answered[2] = r
        /\ Len(accepted) >= 2 /\ accepted[1] = q /\ accepted[2] = r
        /\ response[q].status = 500
        /\ ValidImage(upload[r]) /\ response[r].status = 200
        /\ server = "serving"

\* C8: the stages of predict_image run in the order preprocess, model call,
\* softmax, zip, each after the one before succeeded; the model is not
\* called after a failed preprocess and is called at most once.
C8_StageOrder ==
    \A r \in Requests :
        /\ IsPrefix(stages[r], StageOrder)
        /\ Cardinality({i \in 1..Len(stages[r]) : stages[r][i] = "invoke"}) <= 1
        /\ failedAt[r] \in {"read", "decode"} => stages[r] = <<>>
        /\ failedAt[r] = "preprocess" => stages[r] = <<"preprocess">>
        /\ failedAt[r] = "inference" =>
              stages[r] \in {<<"preprocess", "invoke">>,
                             <<"preprocess", "invoke", "softmax">>}
        /\ Len(stages[r]) >= 2 =>
              /\ preprocess_image(image[r], IMAGE_SIZE, upload[r].fault).ok
              /\ tensor[r] = preprocess_image(image[r], IMAGE_SIZE,
                                              upload[r].fault).tensor
        /\ Len(stages[r]) >= 3 => InvokeModel(model, tensor[r]).ok
        /\ Len(stages[r]) >= 4 => SoftmaxOutputs(outputs[r]).ok

C8_Witness ==
    \E r, q \in Requests :
        /\ pc[r] = "done" /\ failedAt[r] = "preprocess"
        /\ pc[q] = "done" /\ failedAt[q] = "inference"
        /\ stages[q] = <<"preprocess", "invoke">>

\* C9: a failure of the model call, output selection or softmax leaves
\* predict_image as an HTTPException whose detail names the inference
\* failure, and the detail the client receives still names it; a
\* preprocessing failure never carries that text.
InferenceText == "model prediction failed"

C9_InferenceFailureDistinct ==
    \A r \in Requests :
        /\ (pc[r] \in {"return", "done"} /\ failedAt[r] = "inference") =>
              /\ exc[r].type = "HTTPException"
              /\ InferenceText \in Range(exc[r].detail)
              /\ pc[r] = "done" => InferenceText \in Range(response[r].detail)
        /\ (pc[r] \in {"return", "done"} /\ failedAt[r] = "preprocess") =>
              /\ InferenceText \notin Range(exc[r].detail)
              /\ pc[r] = "done" => InferenceText \notin Range(response[r].detail)

\* C10: when the model gives n scores, n different from 5, the request
\* succeeds and the mapping pairs the first min(n, 5) classes with the
\* first min(n, 5) probabilities, in order.
C10_LengthMismatchSilent ==
    \A r \in Requests :
        (/\ Len(stages[r]) >= 3
         /\ outputs[r].dtype = "float32"
         /\ Len(outputs[r].rows[1]) # Len(FLOWER_CLASSES)
         /\ pc[r] = "done") =>
            LET n == Min(Len(outputs[r].rows[1]), Len(FLOWER_CLASSES))
                pr == Softmax(outputs[r].rows[1])
            IN  /\ failedAt[r] = "none"
                /\ response[r].status = 200
                /\ response[r].kind = "predictions"
                /\ DOMAIN response[r].predictions =
                      {FLOWER_CLASSES[i] : i \in 1..n}
                /\ \A i \in 1..n :
                      response[r].predictions[FLOWER_CLASSES[i]] = pr[i]

C10_Witness ==
    \E r \in Requests :
        /\ pc[r] = "done"
        /\ Len(outputs[r].rows) = 1
        /\ Len(outputs[r].rows[1]) < Len(FLOWER_CLASSES)
        /\ response[r].status = 200
        /\ Cardinality(DOMAIN response[r].predictions) = Len(outputs[r].rows[1])

====
